---------------------------- MODULE Spec2Model ----------------------------
(***************************************************************************)
(* A model of docker-build.py (bedag/image-build): the tag-selection rule  *)
(* of TagCandidate, the deep merge and the recursive template renderer of  *)
(* Utils, the event-stream interpretation of Builder.build_image and the   *)
(* per-Build, per-source-tag loop of Builder.build.                        *)
(*                                                                         *)
(* Python values are modelled as follows.  A str is a sequence of          *)
(* one-character strings, None is a record with given = FALSE, a dict is a *)
(* function on a finite set of keys, a list is a sequence.                 *)
(***************************************************************************)
EXTENDS Integers, Sequences, FiniteSets, TLC

VARIABLES
    args,                 \* Builder's flags: dry_run, push, save, ignore_empty, select
    builds,               \* Builder.builds: the Build objects, in manifest order
    bi,                   \* index of the Build the outer loop of build() is at
    ti,                   \* index of the source tag the inner loop is at
    has_applicable_tags,  \* the local of build() of that name
    variables,            \* Builder.variables, the dict build_variables aliases
    result,               \* "running", or how build() ended
    log,                  \* the calls made to the engine, in order
    iters,                \* what each source-tag iteration computed, in order
    root_excludes,        \* the list of that name of build()
    files_default,        \* the list that is the default of files()'s parameter exclude
    selCall,              \* a call of TagCandidate.selected: its inputs and result
    mergeCall,            \* a call of Utils.merge_dict
    renderCall,           \* a call of Utils.render_template and its passes
    engineCall            \* a call of Builder.build_image under build()'s handler

builderVars == <<args, builds, bi, ti, has_applicable_tags, variables, result, log, iters,
                 root_excludes, files_default>>
vars == <<args, builds, bi, ti, has_applicable_tags, variables, result, log, iters,
          root_excludes, files_default,
          selCall, mergeCall, renderCall, engineCall>>

\* The longest select filter and the longest list of selectors.
MaxSelectLen == 2
MaxSelectors == 2

Chars == {"a", "b"}

\* The strings of at most n characters.
Strings(n) == UNION {[1..k -> Chars] : k \in 0..n}

\* The value of an object that takes no part in the specification at hand.
Idle == [state |-> "idle"]

(***************************************************************************)
(* TagCandidate                                                            *)
(***************************************************************************)

\* --select: None when the option is absent, else the string given.
NoSelect == [given |-> FALSE, s |-> <<>>]
Selects == {NoSelect} \cup {[given |-> TRUE, s |-> x] : x \in Strings(MaxSelectLen)}

\* Python's truth value of select: None and the empty string are false.
Truthy(select) == select.given /\ select.s # <<>>

\* The selector patterns of the model: "^a", "b" and the empty pattern.
RxA == [anchored |-> TRUE, lit |-> <<"a">>]
RxB == [anchored |-> FALSE, lit |-> <<"b">>]
RxEmpty == [anchored |-> FALSE, lit |-> <<>>]
Regexes == {RxA, RxB, RxEmpty}

\* re.search(selector, s) for a pattern that is a literal, anchored at the
\* start ("^lit") or not.
re_search(selector, s) ==
    LET n == Len(selector.lit)
    IN  IF selector.anchored
        THEN n <= Len(s) /\ SubSeq(s, 1, n) = selector.lit
        ELSE \E i \in 0..(Len(s) - n) : SubSeq(s, i + 1, i + n) = selector.lit

\* The for loop of selected(): returns at the first selector that matches.
AnySelectorMatches(selectors, s) ==
    \E i \in 1..Len(selectors) : re_search(selectors[i], s)

selected_negateDropped(c, select, primary) ==
    IF primary \/ (primary = c.only_primary)
    THEN IF Truthy(select) /\ c.selectors # <<>>
         THEN AnySelectorMatches(c.selectors, select.s)
         ELSE ~c.negate
    ELSE FALSE

\* TagCandidate.selected(select, primary)
selected(c, select, primary) ==
    IF primary \/ (primary = c.only_primary)
    THEN IF Truthy(select) /\ c.selectors # <<>>
         THEN IF AnySelectorMatches(c.selectors, select.s)
              THEN ~c.negate
              ELSE c.negate
         ELSE ~c.negate
    ELSE FALSE

\* TagCandidate.__init__
TagCandidate(template, selectors, only_primary, negate) ==
    [template |-> template, selectors |-> selectors,
     only_primary |-> only_primary, negate |-> negate]

SelectorLists == UNION {[1..k -> Regexes] : k \in 0..MaxSelectors}

SelectedInputs ==
    [c : {TagCandidate("latest", sl, op, ng) :
              sl \in SelectorLists, op \in BOOLEAN, ng \in BOOLEAN},
     select : Selects,
     primary : BOOLEAN]


(***************************************************************************)
(* Utils.merge_dict                                                        *)
(*                                                                         *)
(* A configuration value is a scalar (an int, a bool or a str, as YAML     *)
(* yields them) or a dict of configuration values.                         *)
(***************************************************************************)
MaxDepth == 2

PyInt(n) == [tag |-> "int", v |-> n]
PyBool(n) == [tag |-> "bool", v |-> n]       \* True is 1, False is 0
PyStr(n) == [tag |-> "str", v |-> n]         \* the n-th string of the model
PyDict(f) == [tag |-> "dict", items |-> f]

Scalars == {PyInt(1), PyBool(1), PyStr(0)}

isdict(x) == x.tag = "dict"

\* Python's == on two configuration values that are not both dicts: bool is a
\* subclass of int, so True == 1 and False == 0; a str equals only itself, a
\* dict never equals a scalar.
PyEq(x, y) ==
    IF isdict(x) \/ isdict(y) THEN FALSE
    ELSE IF x.tag \in {"int", "bool"} /\ y.tag \in {"int", "bool"} THEN x.v = y.v
    ELSE x = y

RECURSIVE merge_dict(_, _)
\* Utils.merge_dict(a, b): a and b are dicts.
merge_dict(a, b) ==
    PyDict([key \in (DOMAIN a.items) \cup (DOMAIN b.items) |->
        IF key \notin DOMAIN b.items THEN a.items[key]
        ELSE IF key \in DOMAIN a.items
             THEN IF isdict(a.items[key]) /\ isdict(b.items[key])
                  THEN merge_dict(a.items[key], b.items[key])
                  ELSE IF PyEq(a.items[key], b.items[key])
                       THEN a.items[key]        \* pass: same leaf value
                       ELSE b.items[key]
             ELSE b.items[key]])

\* The keys a dict of nesting depth d may have: two at the top, one below.
KeysAt(d) == IF d = MaxDepth THEN {"k", "j"} ELSE {"k"}

RECURSIVE Dicts(_)
\* The dicts of nesting depth at most d.
Dicts(d) ==
    IF d = 0 THEN {}
    ELSE {PyDict(f) : f \in UNION {[D -> Scalars \cup Dicts(d - 1)] : D \in SUBSET KeysAt(d)}}

ConfigTrees == Dicts(MaxDepth)
EmptyDict == PyDict(<<>>)

(***************************************************************************)
(* Utils.render_template                                                   *)
(*                                                                         *)
(* A template, and a variable's value, is a sequence of tokens: a piece of *)
(* literal text or a reference {{ name }}.  Rendering substitutes the      *)
(* value text for each reference; parsing the rendered text gives back the *)
(* tokens that text holds.                                                 *)
(***************************************************************************)
MaxTemplateLen == 2
\* Stands for the interpreter's recursion limit (sys.getrecursionlimit()).
RecursionLimit == 4

Lit == [var |-> FALSE, name |-> "t"]
Ref(n) == [var |-> TRUE, name |-> n]
VarNames == {"x", "y"}
Tokens == {Lit} \cup {Ref(n) : n \in VarNames}

Undefined == [defined |-> FALSE, text |-> <<>>]
Value(text) == [defined |-> TRUE, text |-> text]
VarValues ==
    {Undefined, Value(<<Lit>>), Value(<<Ref("x")>>), Value(<<Ref("y")>>),
     Value(<<Lit, Ref("x")>>)}

TemplateTexts == UNION {[1..k -> Tokens] : k \in 0..MaxTemplateLen}

\* jinja2.meta.find_undeclared_variables(ast): the names a text refers to.
find_undeclared_variables(text) ==
    {text[i].name : i \in {j \in 1..Len(text) : text[j].var}}

RECURSIVE Substitute(_, _)
\* The text a render pass produces when every reference resolves; an
\* undefined name renders as the empty text (the non-strict Undefined).
Substitute(text, vs) ==
    IF text = <<>> THEN <<>>
    ELSE (IF Head(text).var THEN vs[Head(text).name].text ELSE <<Head(text)>>)
         \o Substitute(Tail(text), vs)

\* template.render(variables): under StrictUndefined a reference to an
\* undefined name raises UndefinedError.
TemplateRender(template, vs) ==
    IF template.strict /\ \E n \in find_undeclared_variables(template.text) : ~vs[n].defined
    THEN [error |-> TRUE, data |-> <<>>]
    ELSE [error |-> FALSE, data |-> Substitute(template.text, vs)]

(***************************************************************************)
(* Builder.build_image                                                     *)
(*                                                                         *)
(* An event of the engine's stream is a progress line ('stream'), with or  *)
(* without the marker 'Successfully built <id>', a 'status' line or an     *)
(* 'error'.                                                                *)
(***************************************************************************)
MaxEvents == 3

EventKinds == {"stream_built", "stream", "status", "error"}
EventStreams == UNION {[1..k -> EventKinds] : k \in 0..MaxEvents}

HasFatal(stream) == \E i \in 1..Len(stream) : stream[i] = "error"

\* Builder.build_image(context): "image" when it returns an image id, else
\* the exception it raises.
build_image(stream) ==
    IF HasFatal(stream) THEN "BuildError"                  \* line 299
    ELSE IF stream = <<>> THEN "BuildError"                \* line 303
    ELSE IF stream[Len(stream)] = "stream_built" THEN "image"
    ELSE "UnboundLocalError"   \* line 310 reads image_id, which no line assigned

handler_continues(outcome) ==
    IF outcome \in {"image", "BuildError"} THEN "running" ELSE "crashed"

\* The try statement of Builder.build around a build_image call: how the run
\* stands after the call ("running": the loop goes on).
handler(outcome) ==
    IF outcome = "image" THEN "running"
    ELSE IF outcome = "BuildError" THEN "failed"           \* except BuildError: return False
    ELSE "crashed"                                         \* any other exception leaves build()

EngineOutcomes == {build_image(s) : s \in EventStreams}

(***************************************************************************)
(* BuildVariant and Build                                                  *)
(***************************************************************************)
MaxSourceTags == 2

\* A manifest of the model lists one Build or two.
ManifestLengths == {1, 2}

SourceTagNames == <<"1", "2", "3", "4">>
BuildNames == <<"app1", "app2", "app3", "app4">>

\* The tag candidates of the model's manifests and variant config files.
cPrim == TagCandidate("{{ _source.tag }}", <<>>, TRUE, FALSE)
cSel == TagCandidate("latest", <<RxA>>, FALSE, FALSE)
cVar == TagCandidate("variant", <<>>, TRUE, FALSE)

\* TagCandidate.render(variables): "{{ _source.tag }}" renders to the source
\* tag, a template without references to itself.
render(c, source_tag) ==
    IF c.template = "{{ _source.tag }}" THEN source_tag ELSE c.template

\* self.tags[tag['template']] = TagCandidate(**tag): a dict keeps a key's
\* first position and its last value.
DictInsert(d, c) ==
    IF \E i \in 1..Len(d) : d[i].template = c.template
    THEN [i \in 1..Len(d) |-> IF d[i].template = c.template THEN c ELSE d[i]]
    ELSE Append(d, c)

RECURSIVE DictInsertAll(_, _)
DictInsertAll(d, cs) ==
    IF cs = <<>> THEN d ELSE DictInsertAll(DictInsert(d, Head(cs)), Tail(cs))

\* The config file of a variant directory: absent, or one that lists cVar.
NoConfig == [found |-> FALSE, tags |-> <<>>]
VarConfig == [found |-> TRUE, tags |-> <<cVar>>]

\* BuildVariant.__init__: config['tags'] is each tag of the config file
\* merged with {'only_primary': False}, where the right operand wins.
BuildVariant(directory, config, tags) ==
    LET config_tags == [i \in 1..Len(config.tags) |->
                           [config.tags[i] EXCEPT !.only_primary = FALSE]]
    IN  [directory |-> directory,
         has_config |-> config.found,
         tags |-> DictInsertAll(<<>>, tags \o config_tags)]

\* The tag candidates of a variant that render_tags renders, in the order of
\* self.tags.
selected_candidates(variant, select, primary) ==
    LET Sel(c) == selected(c, select, primary)
    IN  SelectSeq(variant.tags, Sel)

\* BuildVariant.render_tags(variables, select, primary)
render_tags(variant, select, primary, source_tag) ==
    LET chosen == selected_candidates(variant, select, primary)
    IN  [i \in 1..Len(chosen) |-> render(chosen[i], source_tag)]

override_variant_noTags(tags, name, config) ==
    BuildVariant(name, config, <<>>)

\* The BuildVariant of a source tag's directory (Build.__init__, lines
\* 253-258): it is given the Build's own tags.
override_variant(tags, name, config) ==
    BuildVariant(name, config, tags)

\* Build.__init__ for the manifest entry `entry`, named `name`; dirs[t] says
\* whether variants_dir/t is a directory and whether it holds a config file.
Build(name, entry, dirs) ==
    LET tagset == {entry.source_tags[i] : i \in 1..Len(entry.source_tags)}
    IN  [name |-> name,
         namespace |-> "image-build",
         source |-> [name |-> name,
                     tags |-> entry.source_tags,
                     primary |-> IF entry.primary.given
                                 THEN entry.primary.tag
                                 ELSE entry.source_tags[1]],
         variants |-> [d \in {"."} \cup {t \in tagset : dirs[t] # "none"} |->
                          IF d = "."
                          THEN BuildVariant(".", NoConfig, entry.tags)
                          ELSE override_variant(entry.tags, d,
                                   IF dirs[d] = "config" THEN VarConfig ELSE NoConfig)]]

\* The inputs of the model: manifest entries and variant directories.
SourceTagLists == {SubSeq(SourceTagNames, 1, k) : k \in 1..MaxSourceTags}
Primaries == {[given |-> FALSE, tag |-> ""], [given |-> TRUE, tag |-> "2"]}
RootTagLists == {<<cPrim, cSel>>}

Entries ==
    [source_tags : SourceTagLists, primary : Primaries, tags : RootTagLists]

\* The variant directories of a Build: none, or one source tag has one, or
\* all have; all with a config file or all without.
DirsOf(entry) ==
    LET tagset == {entry.source_tags[i] : i \in 1..Len(entry.source_tags)}
    IN  {[t \in tagset |-> IF t \in S THEN kind ELSE "none"] :
            S \in {{t} : t \in tagset} \cup {tagset}, kind \in {"dir", "config"}}
        \cup {[t \in tagset |-> "none"]}

BuildInputs == UNION {{[entry |-> e, dirs |-> d] : d \in DirsOf(e)} : e \in Entries}

Manifests == UNION {[1..n -> BuildInputs] : n \in ManifestLengths}

ArgSets ==
    [dry_run : BOOLEAN, push : BOOLEAN, save : BOOLEAN, ignore_empty : BOOLEAN,
     select : {NoSelect, [given |-> TRUE, s |-> <<"b">>]}]

(***************************************************************************)
(* Builder.build                                                           *)
(***************************************************************************)

\* The keys build() writes into build_variables, and who wrote a key's
\* value: the iteration <<build index, source tag index>>, or nobody.
VarKeys == {"_source", "_dest", "_dest.tags", "_timestamp", "_base"}
Absent == <<>>

\* os.path.join(build.namespace, build.name)
repository(build) == <<build.namespace, build.name>>

\* A call made to the engine by Build b (for source tag t, or t = 0), and how
\* it ended: build_image's outcome, or "ok", or "error" for a push or an
\* export that raised.
Event(op, b, t, repo, tag, outcome) ==
    [op |-> op, b |-> b, t |-> t, repo |-> repo, tag |-> tag, outcome |-> outcome]

engine_called_ignoresTags(dry_run, tags) == ~dry_run
engine_called_ignoresDryRun(dry_run, tags) == Len(tags) > 0

\* Whether an iteration calls build_image: not in a dry run (line 373), and
\* only with a tag to apply (line 387).
engine_called(dry_run, tags) == ~dry_run /\ Len(tags) > 0

after_push_continues(ok) == "running"

\* Lines 400-404: a push that raises DockerException ends build() with False.
after_push(ok) == IF ok THEN "running" ELSE "failed"

\* Lines 406-410: an export that raises ends build() with False.
after_save(ok) == IF ok THEN "running" ELSE "failed"

\* The exclusion patterns of the model; a pattern is a sequence of strings.
ConfigFilePattern == <<"image-build.yml">>
TemplateFilePattern == <<"Dockerfile.j2">>
VariantsDirPattern(build) == <<build.name, "variants">>

\* The lines of the .dockerignore of a variant's directory: a directory of
\* the model that holds a config file also holds a .dockerignore, with one
\* pattern of its own; the root directory and a bare directory hold none.
dockerignore_lines(build, variant) ==
    IF variant.has_config THEN << <<build.name, variant.directory, "skip">> >> ELSE <<>>

\* BuildVariant.files(exclude), lines 194-204: the list _exclude, which is
\* the list passed as exclude itself, after the appends.  self.config_file is
\* None for the root variant and 'image-build.yml' for an override: either
\* way 'image-build.yml' is appended.
files_exclude(build, variant, exclude) ==
    exclude \o <<ConfigFilePattern>> \o <<TemplateFilePattern>>
            \o dockerignore_lines(build, variant)

\* Lines 331-334: the variants directory and root template file of every Build.
RECURSIVE initial_root_excludes(_)
initial_root_excludes(bs) ==
    IF bs = <<>> THEN <<>>
    ELSE <<VariantsDirPattern(Head(bs)), TemplateFilePattern>>
         \o initial_root_excludes(Tail(bs))

Init ==
    /\ args \in ArgSets
    /\ builds \in {[i \in 1..Len(m) |-> Build(BuildNames[i], m[i].entry, m[i].dirs)] :
                      m \in Manifests}
    /\ bi = 1
    /\ ti = 1
    /\ has_applicable_tags = FALSE
    /\ variables = [k \in VarKeys |-> Absent]
    /\ result = "running"
    /\ log = <<>>
    /\ iters = <<>>
    /\ root_excludes = initial_root_excludes(builds)
    /\ files_default = <<>>
    /\ selCall = Idle /\ mergeCall = Idle /\ renderCall = Idle /\ engineCall = Idle

\* One pass of the loop over build.source['tags'] (lines 343-396).
Iterate ==
    /\ result = "running"
    /\ bi <= Len(builds)
    /\ ti <= Len(builds[bi].source.tags)
    /\ LET build == builds[bi]
           source_tag == build.source.tags[ti]
           cur == <<bi, ti>>
           primary == source_tag = build.source.primary
           \* lines 344-348: build_variables is self.variables itself
           v1 == [variables EXCEPT !["_source"] = cur, !["_dest"] = cur,
                                   !["_dest.tags"] = Absent, !["_timestamp"] = cur]
           root_tags == render_tags(build.variants["."], args.select, primary, source_tag)
           v2 == [v1 EXCEPT !["_dest.tags"] = cur]
           override == source_tag \in DOMAIN build.variants
           tags == IF override
                   THEN render_tags(build.variants[source_tag], args.select, primary, source_tag)
                   ELSE root_tags
           v3 == IF override THEN [v2 EXCEPT !["_dest.tags"] = cur, !["_base"] = cur] ELSE v2
           \* line 354: files(root_excludes) appends to root_excludes itself
           root_exclude == files_exclude(build, build.variants["."], root_excludes)
           \* line 367: files() appends to the one list that is exclude's default
           override_exclude ==
               IF override
               THEN files_exclude(build, build.variants[source_tag], files_default)
               ELSE files_default
           it(outcome) == [b |-> bi, t |-> ti, primary |-> primary, override |-> override,
                           root_tags |-> root_tags, tags |-> tags,
                           root_selected |->
                               selected_candidates(build.variants["."], args.select, primary),
                           final_selected |->
                               selected_candidates(
                                   build.variants[IF override THEN source_tag ELSE "."],
                                   args.select, primary),
                           tags_view |-> v1, dockerfile_view |-> v2,
                           root_exclude |-> root_exclude,
                           override_exclude |-> IF override THEN override_exclude ELSE <<>>,
                           engine |-> outcome]
       IN  /\ variables' = v3
           /\ root_excludes' = root_exclude
           /\ files_default' = override_exclude
           /\ IF engine_called(args.dry_run, tags)
              THEN \E outcome \in EngineOutcomes :
                     /\ log' = log \o <<Event("build", bi, ti, repository(build), "", outcome)>>
                                   \o (IF outcome = "image"
                                       THEN [i \in 1..Len(tags) |->
                                               Event("tag", bi, ti, repository(build), tags[i], "ok")]
                                       ELSE <<>>)
                     /\ result' = handler(outcome)
                     /\ has_applicable_tags' = (has_applicable_tags \/ outcome = "image")
                     /\ ti' = IF outcome = "image" THEN ti + 1 ELSE ti
                     /\ iters' = Append(iters, it(outcome))
              ELSE /\ iters' = Append(iters, it("none"))
                   /\ ti' = ti + 1
                   /\ UNCHANGED <<log, result, has_applicable_tags>>
    /\ UNCHANGED <<args, builds, bi, selCall, mergeCall, renderCall, engineCall>>

\* After the last source tag of a Build (lines 398-414), and on to the next
\* Build (lines 336-342).
FinishBuild ==
    /\ result = "running"
    /\ bi <= Len(builds)
    /\ ti > Len(builds[bi].source.tags)
    /\ \E pushOk \in BOOLEAN, saveOk \in BOOLEAN :
         LET doPush == has_applicable_tags /\ args.push /\ ~args.dry_run
             afterPush == IF doPush THEN after_push(pushOk) ELSE "running"
             doSave == has_applicable_tags /\ afterPush = "running"
                          /\ args.save /\ ~args.dry_run
             afterSave == IF doSave THEN after_save(saveOk) ELSE afterPush
             res == IF has_applicable_tags THEN afterSave
                    ELSE IF ~args.ignore_empty THEN "failed" ELSE "running"
             repo == repository(builds[bi])
             Ended(ok) == IF ok THEN "ok" ELSE "error"
         IN  /\ log' = log \o (IF doPush THEN <<Event("push", bi, 0, repo, "", Ended(pushOk))>>
                                         ELSE <<>>)
                           \o (IF doSave THEN <<Event("save", bi, 0, repo, "", Ended(saveOk))>>
                                         ELSE <<>>)
             /\ result' = res
             /\ IF res = "running"
                THEN bi' = bi + 1 /\ ti' = 1 /\ has_applicable_tags' = FALSE
                ELSE UNCHANGED <<bi, ti, has_applicable_tags>>
    /\ UNCHANGED <<args, builds, variables, iters, root_excludes, files_default,
                   selCall, mergeCall, renderCall, engineCall>>

\* Line 418: every Build is done.
ReturnTrue ==
    /\ result = "running"
    /\ bi > Len(builds)
    /\ result' = "ok"
    /\ UNCHANGED <<args, builds, bi, ti, has_applicable_tags, variables, log, iters,
                   root_excludes, files_default,
                   selCall, mergeCall, renderCall, engineCall>>

Next == Iterate \/ FinishBuild \/ ReturnTrue

Spec == Init /\ [][Next]_vars

(***************************************************************************)
(* The calls of the pure functions: the inputs are drawn in the initial    *)
(* state, one action applies the function.                                 *)
(***************************************************************************)
BuilderIdle ==
    /\ args = Idle
    /\ builds = <<>>
    /\ bi = 0
    /\ ti = 0
    /\ has_applicable_tags = FALSE
    /\ variables = Idle
    /\ result = "idle"
    /\ log = <<>>
    /\ iters = <<>>
    /\ root_excludes = <<>>
    /\ files_default = <<>>

\* ---- TagCandidate.selected
SelectedInit ==
    /\ BuilderIdle
    /\ selCall \in {[state |-> "ready", in |-> i, out |-> FALSE] : i \in SelectedInputs}
    /\ mergeCall = Idle /\ renderCall = Idle /\ engineCall = Idle

CallSelected ==
    /\ selCall.state = "ready"
    /\ selCall' = [selCall EXCEPT
                     !.state = "done",
                     !.out = selected(selCall.in.c, selCall.in.select, selCall.in.primary)]
    /\ UNCHANGED <<builderVars, mergeCall, renderCall, engineCall>>

SpecSelected == SelectedInit /\ [][CallSelected]_vars

\* ---- Utils.merge_dict
MergeInit ==
    /\ BuilderIdle
    /\ mergeCall \in {[state |-> "ready", a |-> a, b |-> b, out |-> EmptyDict] :
                         a \in ConfigTrees, b \in ConfigTrees}
    /\ selCall = Idle /\ renderCall = Idle /\ engineCall = Idle

CallMerge ==
    /\ mergeCall.state = "ready"
    /\ mergeCall' = [mergeCall EXCEPT
                       !.state = "done",
                       !.out = merge_dict(mergeCall.a, mergeCall.b)]
    /\ UNCHANGED <<builderVars, selCall, renderCall, engineCall>>

SpecMerge == MergeInit /\ [][CallMerge]_vars

\* ---- Utils.render_template: one action per call, the recursive ones included
RenderInit ==
    /\ BuilderIdle
    /\ renderCall \in
         {[state |-> "rendering",
           template |-> [strict |-> st, text |-> tx],
           variables |-> vs,
           depth |-> 1,
           data |-> <<>>] :
             st \in BOOLEAN, tx \in TemplateTexts, vs \in [VarNames -> VarValues]}
    /\ selCall = Idle /\ mergeCall = Idle /\ engineCall = Idle

\* One call of render_template (lines 60-73): render, parse the output, and
\* either return it or call render_template on it.
RenderPass ==
    /\ renderCall.state = "rendering"
    /\ LET r == TemplateRender(renderCall.template, renderCall.variables)
       IN  renderCall' =
             IF r.error
             THEN [renderCall EXCEPT !.state = "render_error"]
             ELSE IF find_undeclared_variables(r.data) = {}
             THEN [renderCall EXCEPT !.state = "returned", !.data = r.data]
             ELSE IF renderCall.depth >= RecursionLimit
             THEN [renderCall EXCEPT !.state = "recursion_error", !.data = r.data]
             ELSE [renderCall EXCEPT
                     !.template = [strict |-> TRUE, text |-> r.data],
                     !.depth = @ + 1,
                     !.data = r.data]
    /\ UNCHANGED <<builderVars, selCall, mergeCall, engineCall>>

SpecRender == RenderInit /\ [][RenderPass]_vars

\* ---- Builder.build_image, called from the try statement of Builder.build
EngineInit ==
    /\ BuilderIdle
    /\ engineCall \in {[state |-> "ready", stream |-> s, outcome |-> "none", run |-> "running"] :
                          s \in EventStreams}
    /\ selCall = Idle /\ mergeCall = Idle /\ renderCall = Idle

CallBuildImage ==
    /\ engineCall.state = "ready"
    /\ engineCall' = [engineCall EXCEPT
                        !.state = "called",
                        !.outcome = build_image(engineCall.stream)]
    /\ UNCHANGED <<builderVars, selCall, mergeCall, renderCall>>

HandleOutcome ==
    /\ engineCall.state = "called"
    /\ engineCall' = [engineCall EXCEPT
                        !.state = "done",
                        !.run = handler(engineCall.outcome)]
    /\ UNCHANGED <<builderVars, selCall, mergeCall, renderCall>>

EngineNext == CallBuildImage \/ HandleOutcome

SpecEngine == EngineInit /\ [][EngineNext]_vars

(***************************************************************************)
(* The properties                                                          *)
(***************************************************************************)

\* What TagCandidate.selected is to return; `supplied` says when a select
\* filter counts as supplied.
SelectedAsSpecified(c, select, primary, supplied) ==
    IF ~primary /\ c.only_primary THEN FALSE
    ELSE IF supplied /\ c.selectors # <<>>
         THEN AnySelectorMatches(c.selectors, select.s) # c.negate
         ELSE ~c.negate

\* C1, as stated: selected returns false for a non-primary tag and an
\* only_primary candidate; otherwise, when a select filter is supplied (any
\* string, the empty one included) and the candidate has a selector, it
\* returns (some selector matches) XOR negate; otherwise not negate.
C1_AsStated ==
    selCall.state = "done" =>
        selCall.out = SelectedAsSpecified(selCall.in.c, selCall.in.select,
                                          selCall.in.primary, selCall.in.select.given)

\* C1, amended: the same, where a select filter counts as supplied only when
\* it is a non-empty string; the empty string is treated like an absent one.
C1_Amended ==
    selCall.state = "done" =>
        selCall.out = SelectedAsSpecified(selCall.in.c, selCall.in.select,
                                          selCall.in.primary,
                                          selCall.in.select.given /\ selCall.in.select.s # <<>>)

\* A call with the empty string as filter on a candidate whose only selector,
\* "^a", does not match it: the candidate is selected.
C1_Witness ==
    /\ selCall.state = "done"
    /\ selCall.in.select = [given |-> TRUE, s |-> <<>>]
    /\ selCall.in.c.selectors = <<RxA>>
    /\ ~selCall.in.c.negate
    /\ selCall.in.primary
    /\ selCall.out = TRUE

\* The number of build_image calls, and of image.tag calls, the log holds
\* for source tag t of Build b.
EngineCalls(b, t) ==
    Cardinality({k \in 1..Len(log) : log[k].op = "build" /\ log[k].b = b /\ log[k].t = t})
TagCalls(b, t) ==
    Cardinality({k \in 1..Len(log) : log[k].op = "tag" /\ log[k].b = b /\ log[k].t = t})

\* An iteration of a source tag whose variant directory holds no config
\* file, in a Build that declares a root tag candidate.
BareOverride(it) ==
    /\ it.override
    /\ builds[it.b].variants["."].tags # <<>>
    /\ ~builds[it.b].variants[builds[it.b].source.tags[it.t]].has_config

C3_EngineOncePerTaggedSource ==
    ~args.dry_run =>
        \A i \in 1..Len(iters) :
            LET it == iters[i]
                repo == <<builds[it.b].namespace, builds[it.b].name>>
            IN  /\ EngineCalls(it.b, it.t) = IF it.tags # <<>> THEN 1 ELSE 0
                /\ TagCalls(it.b, it.t) = IF it.engine = "image" THEN Len(it.tags) ELSE 0
                /\ it.engine = "image" =>
                     \E k \in 1..Len(log) :
                        /\ log[k] = Event("build", it.b, it.t, repo, "", "image")
                        /\ k + Len(it.tags) <= Len(log)
                        /\ \A j \in 1..Len(it.tags) :
                              log[k + j] = Event("tag", it.b, it.t, repo, it.tags[j], "ok")

\* A finished non-dry run without errors in which one source tag had a
\* non-empty tag list and was built and tagged, and another had an empty one.
C3_Witness ==
    /\ result = "ok"
    /\ ~args.dry_run
    /\ \E i \in 1..Len(iters) : Len(iters[i].tags) = 2 /\ iters[i].engine = "image"
    /\ \E i \in 1..Len(iters) : iters[i].tags = <<>>
    /\ \A k \in 1..Len(log) : log[k].outcome \in {"image", "ok"}

\* C4, as stated: the variable set an iteration renders its root tags and
\* its root Dockerfile against holds no value written by an earlier iteration.
C4_AsStated ==
    \A i \in 1..Len(iters) :
        \A key \in VarKeys :
            /\ iters[i].tags_view[key] \in {Absent, <<iters[i].b, iters[i].t>>}
            /\ iters[i].dockerfile_view[key] \in {Absent, <<iters[i].b, iters[i].t>>}

\* A call the engine fails: build_image raising BuildError, or a push or an
\* export that raises.
Failure(e) ==
    \/ e.op = "build" /\ e.outcome = "BuildError"
    \/ e.op \in {"push", "save"} /\ e.outcome = "error"

\* C5: whenever the engine reports a fatal error, or a push or an export
\* fails, build() returns False whatever ignore_empty is, and that call is the
\* last one made: no source tag after the failing one and no later Build is
\* processed.
C5_FailureEndsRun ==
    \A k \in 1..Len(log) :
        Failure(log[k]) =>
            /\ result = "failed"
            /\ k = Len(log)
            /\ bi = log[k].b
            /\ \A i \in 1..Len(iters) : iters[i].b <= log[k].b
            /\ log[k].op = "build" =>
                 iters[Len(iters)].b = log[k].b /\ iters[Len(iters)].t = log[k].t

\* A run with ignore_empty set that a BuildError ended while a source tag of
\* the Build and a later Build were still to come.
C5_Witness ==
    /\ args.ignore_empty
    /\ result = "failed"
    /\ bi < Len(builds)
    /\ ti < Len(builds[bi].source.tags)
    /\ log # <<>>
    /\ log[Len(log)].op = "build"
    /\ log[Len(log)].outcome = "BuildError"

\* The final tag list of source tag t of a Build.
FinalTags(build, t) ==
    LET source_tag == build.source.tags[t]
        primary == source_tag = build.source.primary
    IN  render_tags(build.variants[IF source_tag \in DOMAIN build.variants
                                   THEN source_tag ELSE "."],
                    args.select, primary, source_tag)

\* C6, as stated: when no engine, push or export error occurs, build()
\* returns False exactly when ignore_empty is not set and some Build has an
\* empty final tag list for every source tag, in a dry run as in a normal one.
C6_AsStated ==
    (result \in {"ok", "failed"} /\ \A k \in 1..Len(log) : ~Failure(log[k])) =>
        (result = "failed" <=>
            /\ ~args.ignore_empty
            /\ \E b \in 1..Len(builds) :
                 \A t \in 1..Len(builds[b].source.tags) : FinalTags(builds[b], t) = <<>>)

\* C7: in a dry run no build_image, image.tag, push or export call is made,
\* whatever push, save and ignore_empty are.
C7_DryRunCallsNothing ==
    args.dry_run => log = <<>>

\* A finished dry run with push and save set in which a source tag had a
\* non-empty tag list.
C7_Witness ==
    /\ args.dry_run /\ args.push /\ args.save
    /\ result # "running"
    /\ \E i \in 1..Len(iters) : iters[i].tags # <<>>

\* What merge_dict(a, b) is to return, as a relation on a, b and the result r.
RECURSIVE MergeAsSpecified(_, _, _)
MergeAsSpecified(a, b, r) ==
    /\ isdict(r)
    /\ DOMAIN r.items = (DOMAIN a.items) \cup (DOMAIN b.items)
    /\ \A key \in DOMAIN r.items :
         IF key \in DOMAIN a.items /\ key \in DOMAIN b.items
         THEN IF isdict(a.items[key]) /\ isdict(b.items[key])
              THEN MergeAsSpecified(a.items[key], b.items[key], r.items[key])
              ELSE r.items[key] = b.items[key]
         ELSE IF key \in DOMAIN a.items
              THEN r.items[key] = a.items[key]
              ELSE r.items[key] = b.items[key]

\* C8, as stated: merge_dict(A, B) has exactly the keys of A and B; for a key
\* in both the value is the recursive merge when both values are mappings and
\* B's value otherwise; a key in one only keeps its value; merge_dict(A, {})
\* is A and merge_dict({}, B) is B.
C8_AsStated ==
    mergeCall.state = "done" =>
        /\ MergeAsSpecified(mergeCall.a, mergeCall.b, mergeCall.out)
        /\ mergeCall.b = EmptyDict => mergeCall.out = mergeCall.a
        /\ mergeCall.a = EmptyDict => mergeCall.out = mergeCall.b

\* C9, as stated: render_template ends after finitely many passes, either
\* returning a string that refers to no variable or failing with a render
\* error; it never ends in any other way.
C9_AsStated ==
    /\ renderCall.state \in {"rendering", "returned", "render_error"}
    /\ renderCall.state = "returned" => find_undeclared_variables(renderCall.data) = {}

\* C10, as stated: when the event stream holds no fatal error and does not
\* end in an event with the marker 'Successfully built <id>', build_image
\* raises BuildError, and build() turns it into a failed run.
C10_AsStated ==
    (/\ engineCall.state = "done"
     /\ ~HasFatal(engineCall.stream)
     /\ (engineCall.stream = <<>>
         \/ engineCall.stream[Len(engineCall.stream)] # "stream_built")) =>
        engineCall.outcome = "BuildError" /\ engineCall.run = "failed"

\* C12, as stated: every Build has source.primary among source.tags, so
\* that some source tag of a Build is the primary one: once all source tags
\* of a Build went through the loop, one of them was primary.
C12_AsStated ==
    \A b \in 1..Len(builds) :
        /\ \E t \in 1..Len(builds[b].source.tags) :
              builds[b].source.tags[t] = builds[b].source.primary
        /\ (\A t \in 1..Len(builds[b].source.tags) :
               \E i \in 1..Len(iters) : iters[i].b = b /\ iters[i].t = t)
           => \E i \in 1..Len(iters) : iters[i].b = b /\ iters[i].primary

\* The patterns of a list.
Patterns(list) == {list[k] : k \in 1..Len(list)}

\* C11, as stated: the exclusion set applied when computing an override
\* variant's context files consists only of that variant's own config file
\* name, its own template file name and the patterns of the .dockerignore of
\* its own directory, whatever files() calls came before.
C11_AsStated ==
    \A i \in 1..Len(iters) :
        iters[i].override =>
            LET build == builds[iters[i].b]
                variant == build.variants[build.source.tags[iters[i].t]]
            IN  Patterns(iters[i].override_exclude) =
                    {ConfigFilePattern, TemplateFilePattern}
                        \cup Patterns(dockerignore_lines(build, variant))

=============================================================================
